---------------------------- MODULE Spec2Model ----------------------------
(***************************************************************************)
(* streaming-qr, Tauri backend (src-tauri/src/lib.rs, src-tauri/src/main.rs)*)
(*                                                                         *)
(* Strings are sequences of Unicode scalar values (code points); a file's  *)
(* content and the result of as_bytes() are sequences of bytes (0..255).   *)
(***************************************************************************)
EXTENDS Integers, Sequences, FiniteSets, TLC

(***************************************************************************)
(* Bounds of the model.                                                    *)
(***************************************************************************)
\* longest input string given to validate_data in SpecValidate
MaxLen == 4
\* largest system-clock value (seconds since the epoch) the environment sets
MaxClock == 10

(***************************************************************************)
(* Characters and string literals of the source.                           *)
(***************************************************************************)
\* '\n', the pattern of split_inclusive in str::lines
LF == 10
\* '\r', stripped by str::lines when it precedes '\n'
CR == 13

\* "Hello, "
HelloPrefix == <<72, 101, 108, 108, 111, 44, 32>>
\* "! You've been greeted from Rust!"
GreetSuffix == <<33, 32, 89, 111, 117, 39, 118, 101, 32, 98, 101, 101, 110, 32,
                 103, 114, 101, 101, 116, 101, 100, 32, 102, 114, 111, 109, 32,
                 82, 117, 115, 116, 33>>
\* "decoded_stream_"
GenPrefix == <<100, 101, 99, 111, 100, 101, 100, 95, 115, 116, 114, 101, 97,
               109, 95>>
\* ".txt"
GenSuffix == <<46, 116, 120, 116>>
\* "Failed to save file: "
FailPrefix == <<70, 97, 105, 108, 101, 100, 32, 116, 111, 32, 115, 97, 118,
                101, 32, 102, 105, 108, 101, 58, 32>>
\* "Data saved to: "
SavedPrefix == <<68, 97, 116, 97, 32, 115, 97, 118, 101, 100, 32, 116, 111,
                 58, 32>>
\* "pong"
Pong == <<112, 111, 110, 103>>

(***************************************************************************)
(* UTF-8: a Rust String holds the UTF-8 encoding of its characters.        *)
(***************************************************************************)
\* char::encode_utf8
Utf8Encode(c) ==
    IF c < 128 THEN <<c>>
    ELSE IF c < 2048 THEN <<192 + (c \div 64), 128 + (c % 64)>>
    ELSE IF c < 65536 THEN
        <<224 + (c \div 4096), 128 + ((c \div 64) % 64), 128 + (c % 64)>>
    ELSE <<240 + (c \div 262144), 128 + ((c \div 4096) % 64),
           128 + ((c \div 64) % 64), 128 + (c % 64)>>

RECURSIVE as_bytes(_)
\* str::as_bytes: the bytes of the string
as_bytes(s) ==
    IF s = <<>> THEN <<>> ELSE Utf8Encode(Head(s)) \o as_bytes(Tail(s))

\* a wrong length: the number of characters
StrLenChars(s) == Len(s)

\* str::len: the length in bytes
StrLen(s) == Len(as_bytes(s))

\* str::is_empty
StrIsEmpty(s) == StrLen(s) = 0

IsCont(b) == b >= 128 /\ b <= 191

RECURSIVE from_utf8_ok(_)
\* std::str::from_utf8(bytes).is_ok()
from_utf8_ok(b) ==
    IF b = <<>> THEN TRUE
    ELSE LET b1 == b[1]
             n  == Len(b)
         IN IF b1 < 128 THEN from_utf8_ok(SubSeq(b, 2, n))
            ELSE IF b1 >= 194 /\ b1 <= 223 THEN
                n >= 2 /\ IsCont(b[2]) /\ from_utf8_ok(SubSeq(b, 3, n))
            ELSE IF b1 >= 224 /\ b1 <= 239 THEN
                /\ n >= 3
                /\ IsCont(b[2]) /\ IsCont(b[3])
                /\ (b1 = 224 => b[2] >= 160)
                /\ (b1 = 237 => b[2] <= 159)
                /\ from_utf8_ok(SubSeq(b, 4, n))
            ELSE IF b1 >= 240 /\ b1 <= 244 THEN
                /\ n >= 4
                /\ IsCont(b[2]) /\ IsCont(b[3]) /\ IsCont(b[4])
                /\ (b1 = 240 => b[2] >= 144)
                /\ (b1 = 244 => b[2] <= 143)
                /\ from_utf8_ok(SubSeq(b, 5, n))
            ELSE FALSE

(***************************************************************************)
(* str::lines and str::split_whitespace.                                   *)
(***************************************************************************)
RECURSIVE SplitInclusiveFrom(_, _, _, _)
SplitInclusiveFrom(s, i, start, acc) ==
    IF i > Len(s)
    THEN IF start <= Len(s) THEN Append(acc, SubSeq(s, start, Len(s))) ELSE acc
    ELSE IF s[i] = LF
         THEN SplitInclusiveFrom(s, i + 1, i + 1, Append(acc, SubSeq(s, start, i)))
         ELSE SplitInclusiveFrom(s, i + 1, start, acc)

\* a wrong split: the piece after the last '\n' is yielded even when empty
SplitInclusiveTrailing(s) ==
    LET RECURSIVE go(_, _, _)
        go(i, start, acc) ==
            IF i > Len(s) THEN Append(acc, SubSeq(s, start, Len(s)))
            ELSE IF s[i] = LF THEN go(i + 1, i + 1, Append(acc, SubSeq(s, start, i)))
                 ELSE go(i + 1, start, acc)
    IN go(1, 1, <<>>)

\* str::split_inclusive('\n'): the pieces, each with its terminating '\n';
\* the piece after the last '\n' is yielded only when it is not empty
SplitInclusive(s) == SplitInclusiveFrom(s, 1, 1, <<>>)

\* the closure str::lines maps over the pieces: strip one '\n', then one '\r'
LinesMap(line) ==
    LET n == Len(line)
    IN IF n >= 1 /\ line[n] = LF
       THEN IF n >= 2 /\ line[n - 1] = CR
            THEN SubSeq(line, 1, n - 2)
            ELSE SubSeq(line, 1, n - 1)
       ELSE line

\* str::lines
Lines(s) == LET p == SplitInclusive(s) IN [k \in 1..Len(p) |-> LinesMap(p[k])]

\* char::is_whitespace: the Unicode White_Space property
IsWhitespace(c) ==
    \/ c >= 9 /\ c <= 13
    \/ c = 32
    \/ c = 133
    \/ c = 160
    \/ c = 5760
    \/ c >= 8192 /\ c <= 8202
    \/ c = 8232
    \/ c = 8233
    \/ c = 8239
    \/ c = 8287
    \/ c = 12288

RECURSIVE SplitFrom(_, _, _, _)
SplitFrom(s, i, start, acc) ==
    IF i > Len(s) THEN Append(acc, SubSeq(s, start, Len(s)))
    ELSE IF IsWhitespace(s[i])
         THEN SplitFrom(s, i + 1, i + 1, Append(acc, SubSeq(s, start, i - 1)))
         ELSE SplitFrom(s, i + 1, start, acc)

\* str::split(char::is_whitespace): the pieces between whitespace characters,
\* empty pieces included
Split(s) == SplitFrom(s, 1, 1, <<>>)

\* a wrong split_whitespace: the empty pieces are kept
SplitWhitespaceNoFilter(s) == Split(s)

\* str::split_whitespace: split(char::is_whitespace) filtered to the
\* non-empty pieces
SplitWhitespace(s) == SelectSeq(Split(s), LAMBDA w : w # <<>>)

(***************************************************************************)
(* The commands.                                                           *)
(***************************************************************************)
\* greet: format!("Hello, {}! You've been greeted from Rust!", name)
greet(name) == HelloPrefix \o name \o GreetSuffix

\* ping
ping == Pong

\* validate_data: the fields of the JSON object it returns
validate_data(data) ==
    [size       |-> StrLen(data),
     is_utf8    |-> from_utf8_ok(as_bytes(data)),
     line_count |-> Len(Lines(data)),
     word_count |-> Len(SplitWhitespace(data)),
     is_empty   |-> StrIsEmpty(data)]


(***************************************************************************)
(* save_decoded_data: names, messages and the file system.                 *)
(***************************************************************************)
RECURSIVE FmtU64(_)
\* Display for u64: decimal digits, no leading zero
FmtU64(n) ==
    IF n < 10 THEN <<48 + n>> ELSE FmtU64(n \div 10) \o <<48 + (n % 10)>>

\* a wrong generated name: the timestamp in milliseconds
GenFileNameMillis(timestamp) == GenPrefix \o FmtU64(timestamp * 1000) \o GenSuffix

\* format!("decoded_stream_{}.txt", timestamp)
GenFileName(timestamp) == GenPrefix \o FmtU64(timestamp) \o GenSuffix

\* a wrong error message: the cause is left out
SaveErrorNoCause(e) == FailPrefix

\* format!("Failed to save file: {}", e)
SaveError(e) == FailPrefix \o e

\* format!("Data saved to: {}", file_name)
SaveOk(file_name) == SavedPrefix \o file_name

\* Option<String>
None == [some |-> FALSE, v |-> <<>>]
Some(x) == [some |-> TRUE, v |-> x]

\* "out.txt", a file name in the working directory
OutPath == <<111, 117, 116, 46, 116, 120, 116>>
\* "nodir/out.txt", a file name in a directory that does not exist
NoDirPath == <<110, 111, 100, 105, 114, 47, 111, 117, 116, 46, 116, 120, 116>>
\* Display of io::Error for ENOENT: "No such file or directory (os error 2)"
NoEnt == <<78, 111, 32, 115, 117, 99, 104, 32, 102, 105, 108, 101, 32, 111,
           114, 32, 100, 105, 114, 101, 99, 116, 111, 114, 121, 32, 40, 111,
           115, 32, 101, 114, 114, 111, 114, 32, 50, 41>>
\* Display of io::Error for ENOSPC: "No space left on device (os error 28)"
NoSpace == <<78, 111, 32, 115, 112, 97, 99, 101, 32, 108, 101, 102, 116, 32,
             111, 110, 32, 100, 101, 118, 105, 99, 101, 32, 40, 111, 115, 32,
             101, 114, 114, 111, 114, 32, 50, 56, 41>>

\* the values the environment gives the system clock, in whole seconds
\* relative to the Unix epoch; a negative value is a clock set before it
ClockValues == {-1, MaxClock - 1, MaxClock}

\* the paths the calls of the model can name
Paths == {OutPath, NoDirPath} \cup {GenFileName(t) : t \in {c \in ClockValues : c >= 0}}

\* a file: absent, or present with its bytes
Absent == [exists |-> FALSE, bytes |-> <<>>]
File(b) == [exists |-> TRUE, bytes |-> b]

\* the error of File::create(path), <<>> when it succeeds
OpenError(path) == IF path = NoDirPath THEN NoEnt ELSE <<>>

\* a wrong open: the file is created when absent but an existing file keeps
\* its bytes (no O_TRUNC)
CreateNoTrunc(old) == IF old.exists THEN old ELSE File(<<>>)

\* File::create on a writable path: the file is created or truncated
Create(old) == File(<<>>)

Max(a, b) == IF a >= b THEN a ELSE b

\* a wrong write: only the first byte of the chunk reaches the file
WriteAtFirst(b, off, chunk) ==
    [i \in 1..Max(Len(b), off + 1) |->
        IF i = off + 1 THEN chunk[1] ELSE IF i <= Len(b) THEN b[i] ELSE 0]

\* write(2) on a descriptor at offset off: the chunk replaces the bytes at
\* off+1..off+Len(chunk); a gap between the end of the file and off reads 0
WriteAt(b, off, chunk) ==
    [i \in 1..Max(Len(b), off + Len(chunk)) |->
        IF i > off /\ i <= off + Len(chunk) THEN chunk[i - off]
        ELSE IF i <= Len(b) THEN b[i] ELSE 0]

\* write_all: the buffer and the descriptor advance by the bytes written
Advance(off, n) == off + n

\* a wrong file-system update: every writable path receives the file
FsPutAll(fsv, path, file) ==
    [f \in DOMAIN fsv |-> IF OpenError(f) = <<>> THEN file ELSE fsv[f]]

\* the file system after the file at path is replaced
FsPut(fsv, path, file) == [fsv EXCEPT ![path] = file]

(***************************************************************************)
(* State.                                                                  *)
(***************************************************************************)
VARIABLES
    started,    \* the entry point that built the application: "none", "main", "run"
    clock,      \* the system clock, whole seconds relative to the epoch
    fs,         \* the file system: path -> file
    pc,         \* per invocation slot: "idle", "create", "write", "done"
    call,       \* per invocation slot: the command, its arguments, locals, result
    lastSaved,  \* history: per path, the data of the most recent save that
                \* targeted it (None when that save failed or none happened)
    first       \* history: the command, the argument and the result of the
                \* first call of greet, validate_data or ping

vars == <<started, clock, fs, pc, call, lastSaved, first>>

\* two invocations may be in flight at once
Procs == {1, 2}

Commands == {"greet", "save_decoded_data", "validate_data", "ping"}

\* generate_handler! of the builder that was run
Handlers ==
    IF started = "main" THEN {"ping"}
    ELSE IF started = "run" THEN {"greet", "save_decoded_data", "validate_data"}
    ELSE {}

\* arguments of the calls in Spec and SpecSeq
GreetArgs == {<<>>, <<65, 100, 97>>}
ValidateArgs == {<<>>, <<97, 10, 98, 10, 99>>}
SaveArgs == {<<>>, <<66>>, <<233, 65>>}
FilenameArgs == {None, Some(OutPath), Some(NoDirPath)}

NoJson == [size |-> 0, is_utf8 |-> FALSE, line_count |-> 0, word_count |-> 0,
           is_empty |-> FALSE]

\* kind: "ok" (a success value), "err" (Err(String)), "panic" (the call
\* unwound), "notfound" (the dispatcher has no handler of that name)
Res(kind, text, json) == [kind |-> kind, text |-> text, json |-> json]
NoRes == Res("none", <<>>, NoJson)

\* the commands that take no file name
PureCommands == {"greet", "validate_data", "ping"}

NoFirst == [cmd |-> "none", arg |-> <<>>, res |-> NoRes]

NoCall == [cmd |-> "none", arg |-> <<>>, filename |-> None, file_name |-> <<>>,
           timestamp |-> 0, off |-> 0, before |-> 0, overlap |-> FALSE, clean |-> FALSE,
           res |-> NoRes]

Init ==
    /\ started = "none"
    /\ clock \in ClockValues
    /\ fs = [f \in Paths |-> Absent]
    /\ pc = [p \in Procs |-> "idle"]
    /\ call = [p \in Procs |-> NoCall]
    /\ lastSaved = [f \in Paths |-> None]
    /\ first = NoFirst

InFlight(p) == pc[p] \in {"create", "write"}
CanInvoke(p) == started # "none" /\ ~InFlight(p)

(***************************************************************************)
(* Startup: the builder that is run fixes the registered handlers.         *)
(***************************************************************************)
\* main.rs main(): Builder ... invoke_handler(generate_handler![ping]) ... run
Main ==
    /\ started = "none"
    /\ started' = "main"
    /\ UNCHANGED <<clock, fs, pc, call, lastSaved, first>>

\* lib.rs run(): invoke_handler(generate_handler![greet, save_decoded_data,
\* validate_data]) ... run
Run ==
    /\ started = "none"
    /\ started' = "run"
    /\ UNCHANGED <<clock, fs, pc, call, lastSaved, first>>

\* the environment sets the system clock
SetClock(t) ==
    /\ clock # t
    /\ clock' = t
    /\ UNCHANGED <<started, fs, pc, call, lastSaved, first>>

(***************************************************************************)
(* Invocations.                                                            *)
(***************************************************************************)
\* history: the first call of a command is remembered
Remember(cmd, arg, res) ==
    first' = IF first.cmd # "none" THEN first
             ELSE [cmd |-> cmd, arg |-> arg, res |-> res]

Finish(p, c) ==
    /\ pc' = [pc EXCEPT ![p] = "done"]
    /\ call' = [call EXCEPT ![p] = c]

\* the dispatcher has no handler registered under the name
InvokeUnregistered(p, cmd) ==
    /\ CanInvoke(p)
    /\ cmd \notin Handlers
    /\ Finish(p, [NoCall EXCEPT !.cmd = cmd, !.res = Res("notfound", <<>>, NoJson)])
    /\ UNCHANGED <<started, clock, fs, lastSaved, first>>

Greet(p, name) ==
    /\ CanInvoke(p)
    /\ "greet" \in Handlers
    /\ Finish(p, [NoCall EXCEPT !.cmd = "greet", !.arg = name,
                                !.res = Res("ok", greet(name), NoJson)])
    /\ Remember("greet", name, Res("ok", greet(name), NoJson))
    /\ UNCHANGED <<started, clock, fs, lastSaved>>

Ping(p) ==
    /\ CanInvoke(p)
    /\ "ping" \in Handlers
    /\ Finish(p, [NoCall EXCEPT !.cmd = "ping", !.res = Res("ok", ping, NoJson)])
    /\ Remember("ping", <<>>, Res("ok", ping, NoJson))
    /\ UNCHANGED <<started, clock, fs, lastSaved>>

ValidateData(p, data) ==
    /\ CanInvoke(p)
    /\ "validate_data" \in Handlers
    /\ Finish(p, [NoCall EXCEPT !.cmd = "validate_data", !.arg = data,
                                !.res = Res("ok", <<>>, validate_data(data))])
    /\ Remember("validate_data", data, Res("ok", <<>>, validate_data(data)))
    /\ UNCHANGED <<started, clock, fs, lastSaved>>

\* save_decoded_data, lines 12-18: the file name is the argument or is
\* generated from the clock; duration_since(UNIX_EPOCH) is Err for a clock
\* before the epoch and unwrap() panics
SaveBegin(p, data, filename) ==
    /\ CanInvoke(p)
    /\ "save_decoded_data" \in Handlers
    /\ LET c0 == [NoCall EXCEPT !.cmd = "save_decoded_data", !.arg = data,
                                !.filename = filename,
                                !.timestamp = IF filename.some THEN 0 ELSE clock]
       IN IF ~filename.some /\ clock < 0
          THEN /\ Finish(p, [c0 EXCEPT !.res = Res("panic", <<>>, NoJson)])
          ELSE LET name == IF filename.some THEN filename.v ELSE GenFileName(clock)
                   meets(q) == q # p /\ InFlight(q) /\ call[q].file_name = name
               IN /\ pc' = [pc EXCEPT ![p] = "create"]
                  /\ call' = [q \in Procs |->
                        IF q = p
                        THEN [c0 EXCEPT !.file_name = name,
                                        !.overlap = \E r \in Procs : meets(r)]
                        ELSE IF meets(q) THEN [call[q] EXCEPT !.overlap = TRUE]
                        ELSE call[q]]
    /\ UNCHANGED <<started, clock, fs, lastSaved, first>>

\* the other invocations' descriptors of the same file are no longer the
\* last to have touched it
Touch(p, c) ==
    [q \in Procs |->
        IF q = p THEN c
        ELSE IF call[q].cmd = "save_decoded_data"
                /\ call[q].file_name = call[p].file_name
             THEN [call[q] EXCEPT !.clean = FALSE]
             ELSE call[q]]

\* fs::write, File::create(path): fails for a path that cannot be created,
\* otherwise creates or truncates the file
SaveCreate(p) ==
    /\ pc[p] = "create"
    /\ LET name == call[p].file_name
           e == OpenError(name)
       IN IF e # <<>>
          THEN /\ Finish(p, [call[p] EXCEPT !.res = Res("err", SaveError(e), NoJson)])
               /\ lastSaved' = [lastSaved EXCEPT ![name] = None]
               /\ UNCHANGED fs
          ELSE /\ fs' = FsPut(fs, name, Create(fs[name]))
               /\ pc' = [pc EXCEPT ![p] = "write"]
               /\ call' = Touch(p, [call[p] EXCEPT !.off = 0, !.clean = TRUE,
                                                   !.before = Len(fs[name].bytes)])
               /\ UNCHANGED lastSaved
    /\ UNCHANGED <<started, clock, first>>

\* fs::write, write_all(data): one write(2) of the loop, which writes n of
\* the remaining bytes at the descriptor's offset
SaveWrite(p) ==
    /\ pc[p] = "write"
    /\ LET name == call[p].file_name
           buf == as_bytes(call[p].arg)
           off == call[p].off
       IN \E n \in 1..(Len(buf) - off) :
          /\ fs' = FsPut(fs, name,
                         File(WriteAt(fs[name].bytes, off, SubSeq(buf, off + 1, off + n))))
          /\ call' = Touch(p, [call[p] EXCEPT !.off = Advance(off, n)])
    /\ UNCHANGED <<started, clock, pc, lastSaved, first>>

\* fs::write, write_all(data): a write(2) of the loop fails (the device is
\* full); map_err and ? return the error
SaveWriteFail(p) ==
    /\ pc[p] = "write"
    /\ call[p].off < Len(as_bytes(call[p].arg))
    /\ Finish(p, [call[p] EXCEPT !.res = Res("err", SaveError(NoSpace), NoJson)])
    /\ lastSaved' = [lastSaved EXCEPT ![call[p].file_name] = None]
    /\ UNCHANGED <<started, clock, fs, first>>

\* save_decoded_data, line 23: the buffer is written, Ok is returned
SaveReturn(p) ==
    /\ pc[p] = "write"
    /\ call[p].off = Len(as_bytes(call[p].arg))
    /\ Finish(p, [call[p] EXCEPT !.res = Res("ok", SaveOk(call[p].file_name), NoJson)])
    /\ lastSaved' = [lastSaved EXCEPT ![call[p].file_name] = Some(call[p].arg)]
    /\ UNCHANGED <<started, clock, fs, first>>

(***************************************************************************)
(* Spec: one dispatcher that runs its handlers one at a time (the commands *)
(* are synchronous, the dispatcher runs each to its end on one thread).    *)
(***************************************************************************)
Next ==
    \/ Main
    \/ Run
    \/ \E t \in ClockValues : SetClock(t)
    \/ \E cmd \in Commands : InvokeUnregistered(1, cmd)
    \/ \E name \in GreetArgs : Greet(1, name)
    \/ Ping(1)
    \/ \E data \in ValidateArgs : ValidateData(1, data)
    \/ \E data \in SaveArgs, filename \in FilenameArgs : SaveBegin(1, data, filename)
    \/ SaveCreate(1)
    \/ SaveWrite(1)
    \/ SaveWriteFail(1)
    \/ SaveReturn(1)

Spec == Init /\ [][Next]_vars

(***************************************************************************)
(* SpecOverlap: two invocations of save_decoded_data in flight at once     *)
(* (two instances of the application in one working directory, or a        *)
(* dispatcher that runs handlers on several threads).                      *)
(***************************************************************************)
\* the overlapping calls name the same file
OverlapFilenameArgs == {Some(OutPath)}

NextOverlap ==
    \/ Run
    \/ \E p \in Procs, data \in SaveArgs, filename \in OverlapFilenameArgs :
          SaveBegin(p, data, filename)
    \/ \E p \in Procs : SaveCreate(p)
    \/ \E p \in Procs : SaveWrite(p)
    \/ \E p \in Procs : SaveWriteFail(p)
    \/ \E p \in Procs : SaveReturn(p)

SpecOverlap == Init /\ [][NextOverlap]_vars

(***************************************************************************)
(* SpecValidate: validate_data applied to every string of at most MaxLen   *)
(* characters over an alphabet of line terminators, whitespace and         *)
(* characters of one to four bytes, and to the strings of the tests.       *)
(***************************************************************************)
\* '\n', '\r', ' ', 'a', U+00E9, U+3000 (ideographic space), U+1F600
Alphabet == {LF, CR, 32, 97, 233, 12288, 128512}

StringsUpTo(n) == UNION {[1..k -> Alphabet] : k \in 0..n}

\* "hello world" and "a\nb\nc"
HelloWorld == <<104, 101, 108, 108, 111, 32, 119, 111, 114, 108, 100>>
ABC == <<97, 10, 98, 10, 99>>

Inputs == StringsUpTo(MaxLen) \cup {HelloWorld, ABC}

InitValidate ==
    /\ started = "run"
    /\ clock = MaxClock
    /\ fs = [f \in Paths |-> Absent]
    /\ pc = [p \in Procs |-> "idle"]
    /\ call = [p \in Procs |-> NoCall]
    /\ lastSaved = [f \in Paths |-> None]
    /\ first = NoFirst

\* one call per behaviour
NextValidate == \E data \in Inputs : pc[1] = "idle" /\ ValidateData(1, data)

SpecValidate == InitValidate /\ [][NextValidate]_vars

(***************************************************************************)
(* Vocabulary of the properties.                                           *)
(***************************************************************************)
\* needle occurs in hay as a contiguous substring
Contains(hay, needle) ==
    \E i \in 0..(Len(hay) - Len(needle)) : SubSeq(hay, i + 1, i + Len(needle)) = needle

RECURSIVE DecValue(_)
\* the number a sequence of decimal digits denotes
DecValue(d) ==
    IF d = <<>> THEN 0 ELSE 10 * DecValue(SubSeq(d, 1, Len(d) - 1)) + (d[Len(d)] - 48)

\* name is decoded_stream_<s>.txt with <s> the decimal digits of s
IsGeneratedName(name, s) ==
    LET k == Len(name) - Len(GenPrefix) - Len(GenSuffix)
        d == SubSeq(name, Len(GenPrefix) + 1, Len(GenPrefix) + k)
    IN /\ k >= 1
       /\ SubSeq(name, 1, Len(GenPrefix)) = GenPrefix
       /\ SubSeq(name, Len(name) - Len(GenSuffix) + 1, Len(name)) = GenSuffix
       /\ \A i \in 1..k : d[i] >= 48 /\ d[i] <= 57
       /\ DecValue(d) = s

\* the number of bytes of the UTF-8 encoding of a character
Utf8Width(c) == IF c <= 127 THEN 1 ELSE IF c <= 2047 THEN 2 ELSE IF c <= 65535 THEN 3 ELSE 4

RECURSIVE ByteLength(_)
ByteLength(s) == IF s = <<>> THEN 0 ELSE Utf8Width(Head(s)) + ByteLength(Tail(s))

\* the characters with the Unicode property White_Space
WhiteSpace ==
    (9..13) \cup {32, 133, 160, 5760} \cup (8192..8202)
        \cup {8232, 8233, 8239, 8287, 12288}

\* the positions at which a maximal run of non-whitespace characters starts
WordStarts(s) ==
    {i \in 1..Len(s) : s[i] \notin WhiteSpace /\ (i = 1 \/ s[i - 1] \in WhiteSpace)}

\* the number of line terminators (a '\n', with or without a '\r' before it)
NumTerminators(s) == Cardinality({i \in 1..Len(s) : s[i] = LF})

IsSave(p) == call[p].cmd = "save_decoded_data"
Done(p) == pc[p] = "done"
SavedOk(p) == Done(p) /\ IsSave(p) /\ call[p].res.kind = "ok"
Validated(p) == Done(p) /\ call[p].cmd = "validate_data" /\ call[p].res.kind = "ok"

(***************************************************************************)
(* C1.  Whenever save_decoded_data returns success, the file it wrote is   *)
(* named the supplied filename when one is given and decoded_stream_<s>.txt *)
(* (s the clock in whole seconds at the call) when it is absent, the       *)
(* content of that file is exactly the bytes of data, and the returned     *)
(* string contains that filename.  (Spec: calls do not overlap, so the     *)
(* record of slot 1 is the call that ran last.)                            *)
(***************************************************************************)
C1_SaveSuccess ==
    \A p \in Procs : SavedOk(p) =>
        LET c == call[p]
        IN /\ IF c.filename.some THEN c.file_name = c.filename.v
              ELSE IsGeneratedName(c.file_name, c.timestamp)
           /\ fs[c.file_name] = File(as_bytes(c.arg))
           /\ Contains(c.res.text, c.file_name)

C1_Witness ==
    \E p \in Procs :
        /\ SavedOk(p)
        /\ ~call[p].filename.some
        /\ call[p].timestamp = MaxClock
        /\ Len(call[p].arg) < Len(fs[call[p].file_name].bytes)

(***************************************************************************)
(* C2.  A save overwrites: when no call is in flight, every file whose     *)
(* most recent save succeeded holds exactly the bytes of that save's data, *)
(* whatever it held before.  (This is the claim for each file on its own;  *)
(* it implies the claim, which supposes that all calls succeeded.)         *)
(***************************************************************************)
C2_Overwrite ==
    (\A p \in Procs : ~InFlight(p)) =>
        \A f \in Paths : lastSaved[f].some => fs[f] = File(as_bytes(lastSaved[f].v))

\* a save that found longer content in its file and succeeded
C2_Witness ==
    \E p \in Procs :
        /\ SavedOk(p)
        /\ call[p].before > Len(as_bytes(call[p].arg))
        /\ lastSaved[call[p].file_name] = Some(call[p].arg)
        /\ fs[call[p].file_name] = File(as_bytes(call[p].arg))

(***************************************************************************)
(* C3.  A save whose filename points at a location where no file can be    *)
(* created returns an error string that contains the description of the    *)
(* operating-system error, and the path does not exist afterwards.         *)
(***************************************************************************)
C3_NonWritable ==
    \A p \in Procs :
        (Done(p) /\ IsSave(p) /\ OpenError(call[p].file_name) # <<>>) =>
            /\ call[p].res.kind = "err"
            /\ Contains(call[p].res.text, OpenError(call[p].file_name))
            /\ ~fs[call[p].file_name].exists

C3_Witness ==
    \E p \in Procs :
        /\ Done(p) /\ IsSave(p)
        /\ call[p].file_name = NoDirPath
        /\ call[p].res.kind = "err"
        /\ fs[NoDirPath] = Absent

(***************************************************************************)
(* C4.  The claim as stated: when two overlapping saves of the same file   *)
(* both return success, the file holds exactly the data of one of them.    *)
(***************************************************************************)
Overlapped(p, q) ==
    /\ p # q
    /\ SavedOk(p) /\ SavedOk(q)
    /\ call[p].file_name = call[q].file_name
    /\ call[p].overlap /\ call[q].overlap

C4_LastWriterWins ==
    \A p, q \in Procs : Overlapped(p, q) =>
        fs[call[p].file_name].bytes \in {as_bytes(call[p].arg), as_bytes(call[q].arg)}

(***************************************************************************)
(* C4, amended.  When two overlapping saves of the same file both return   *)
(* success, the file holds exactly the data of the one that created        *)
(* (truncated) the file last, provided the other wrote nothing after that. *)
(***************************************************************************)
C4_LastCreateWins ==
    \A p, q \in Procs : (Overlapped(p, q) /\ call[p].clean) =>
        fs[call[p].file_name] = File(as_bytes(call[p].arg))

C4_Witness ==
    \E p, q \in Procs :
        /\ Overlapped(p, q) /\ call[p].clean
        /\ call[p].arg # <<>>
        /\ Len(as_bytes(call[q].arg)) > Len(as_bytes(call[p].arg))
        /\ call[p].before > 0

(***************************************************************************)
(* C5.  The claim as stated: every call that reaches its handler ends by   *)
(* returning; save_decoded_data returns the success string or a            *)
(* write-failure error string, the other commands a success value.         *)
(***************************************************************************)
C5_OnlyWriteFailure ==
    \A p \in Procs : (Done(p) /\ call[p].res.kind # "notfound") =>
        /\ IsSave(p) => call[p].res.kind \in {"ok", "err"}
        /\ call[p].cmd \in PureCommands => call[p].res.kind = "ok"

(***************************************************************************)
(* C6.  validate_data(s).size is the length of s in bytes, not characters, *)
(* and is_empty is true exactly when size is 0.                            *)
(***************************************************************************)
C6_Size ==
    \A p \in Procs : (Done(p) /\ call[p].cmd = "validate_data") =>
        LET s == call[p].arg
            r == call[p].res.json
        IN /\ call[p].res.kind = "ok"
           /\ r.size = ByteLength(s)
           /\ r.is_empty <=> (r.size = 0)
           /\ (\E i \in 1..Len(s) : s[i] > 127) => r.size > Len(s)
           /\ s = <<>> => (r.size = 0 /\ r.is_empty)

C6_Witness ==
    \E p \in Procs :
        /\ Validated(p)
        /\ Len(call[p].arg) = 2
        /\ call[p].res.json.size = 7
        /\ ~call[p].res.json.is_empty

(***************************************************************************)
(* C7.  validate_data(s).line_count is the number of segments s splits     *)
(* into at its line terminators: one per terminator, one more for a final  *)
(* segment without terminator, none for a terminator at the very end, 0    *)
(* for the empty string.                                                   *)
(***************************************************************************)
C7_LineCount ==
    \A p \in Procs : Validated(p) =>
        LET s == call[p].arg
            r == call[p].res.json
        IN /\ r.line_count = NumTerminators(s)
                    + (IF s # <<>> /\ s[Len(s)] # LF THEN 1 ELSE 0)
           /\ s = <<>> => r.line_count = 0
           /\ s = ABC => r.line_count = 3
           /\ s = HelloWorld => r.line_count = 1

\* "a\r\n\n": two terminators, the last at the very end, two lines
C7_Witness ==
    \E p \in Procs :
        /\ Validated(p)
        /\ call[p].arg = <<97, CR, LF, LF>>
        /\ call[p].res.json.line_count = 2

(***************************************************************************)
(* C8.  validate_data(s).word_count is the number of maximal runs of       *)
(* non-whitespace characters of s.                                         *)
(***************************************************************************)
C8_WordCount ==
    \A p \in Procs : Validated(p) =>
        LET s == call[p].arg
            r == call[p].res.json
        IN /\ r.word_count = Cardinality(WordStarts(s))
           /\ (\A i \in 1..Len(s) : s[i] \in WhiteSpace) => r.word_count = 0
           /\ s = HelloWorld => r.word_count = 2

\* ' ', 'a', U+3000, ' ': a leading separator, one word, a trailing run
C8_Witness ==
    \E p \in Procs :
        /\ Validated(p)
        /\ call[p].arg = <<32, 97, 12288, 32>>
        /\ call[p].res.json.word_count = 1

(***************************************************************************)
(* C9.  The file write of save_decoded_data is the only side effect: a     *)
(* step changes a file only if it is a step of a save in flight whose      *)
(* target is that file; and greet, validate_data and ping keep no state:   *)
(* a call with the arguments of the first call returns what it returned.   *)
(***************************************************************************)
C9_FrameStep ==
    \A f \in Paths : fs'[f] # fs[f] =>
        \E p \in Procs : InFlight(p) /\ IsSave(p) /\ call[p].file_name = f
                         /\ call'[p] # call[p]

C9_SameResult ==
    \A p \in Procs :
        (Done(p) /\ call[p].cmd = first.cmd /\ call[p].arg = first.arg) =>
            call[p].res = first.res

C9_OnlySideEffect == [][C9_FrameStep /\ C9_SameResult']_vars

\* a pure call repeats the first one after a save has written a file
C9_Witness ==
    \E p \in Procs :
        /\ Done(p) /\ call[p].cmd = "validate_data"
        /\ first.cmd = "validate_data" /\ first.arg = call[p].arg
        /\ fs[OutPath].exists /\ fs[OutPath].bytes # <<>>
        /\ \E f \in Paths \ {OutPath, NoDirPath} : fs[f].exists

(***************************************************************************)
(* C10.  The claim as stated: in the application started by main, an       *)
(* invocation of any of the four commands reaches its function and returns *)
(* that function's result.                                                 *)
(***************************************************************************)
C10_AllRegistered ==
    started = "main" =>
        \A p \in Procs : Done(p) =>
            /\ call[p].res.kind # "notfound"
            /\ call[p].cmd = "ping" => call[p].res.text = Pong

=============================================================================
